---- MODULE Spec2Model ----
(***************************************************************************)
(* A model of src/src/carousel.js: the Carousel component's controller     *)
(* (currentIndexRef, scrollXRef, scrollXBeginRef, the deferred             *)
(* scrollToOffset commands) and its geometry / interpolation arithmetic.   *)
(*                                                                         *)
(* Lengths are fixed-point numbers: one pixel is Unit sub-units, so that   *)
(* every division the code performs (containerWidth / 2, itemWidth / 2,    *)
(* (1 - inActiveScale) * itemWidth / 2, the margin halvings) is exact.     *)
(* inActiveScale is a number of ScaleDen-ths.  An interpolated scale is a  *)
(* reduced fraction <<numerator, denominator>>.                            *)
(***************************************************************************)
EXTENDS Integers, Sequences, FiniteSets, TLC

VARIABLES
    props,              \* the component's props (fixed for one mount)
    currentIndexRef,    \* currentIndexRef.current
    scrollXRef,         \* scrollXRef.current: the live scroll offset
    scrollXBeginRef,    \* scrollXBeginRef.current: the offset at drag-begin
    scroll,             \* the `scroll` state (useState), drives the items
    scrollViewRef,      \* TRUE while scrollViewRef.current is the mounted list
    timers,             \* pending setTimeout callbacks (their captured index), FIFO
    listCommand,        \* the last scrollToOffset the host list received (<<>>: none)
    retargeted,         \* history: a scrollToIndex was accepted while another's
                        \* scrollToOffset was still pending
    event,              \* history: the handler that ran last
    effects,            \* history: the calls that handler made, in order
    gesture             \* history, kept under GestureSpec only: the drag in
                        \* progress or the last one released

vars == <<props, currentIndexRef, scrollXRef, scrollXBeginRef, scroll,
          scrollViewRef, timers, listCommand, retargeted, event, effects,
          gesture>>

----------------------------------------------------------------------------
(* Bounds and units *)

ScaleDen == 10
Unit == 8 * ScaleDen
Px(n) == n * Unit

MaxDataLength == 3
MaxPending == 2
GeomMaxDataLength == 5

\* contentOffset.x values the host reports while the controller is exercised
ScrollOffsets == {Px(-20), Px(0), Px(80), Px(100), Px(102)}
MinScrollDistances == {Px(0), Px(5)}

ContainerWidths == {Px(300), Px(200)}
ItemWidths == {Px(270), Px(100)}
SeparatorWidths == {Px(-300), Px(0), Px(10)}
InActiveScales == {ScaleDen \div 2, ScaleDen - 2, ScaleDen}
InActiveOpacities == {ScaleDen \div 2, ScaleDen - 2}

----------------------------------------------------------------------------
(* Arithmetic helpers *)

Abs(x) == IF x < 0 THEN -x ELSE x

RECURSIVE Gcd(_, _)
Gcd(a, b) == IF b = 0 THEN a ELSE Gcd(b, a % b)

\* the fraction n / d (d # 0) in lowest terms with a positive denominator
Frac(n, d) ==
    LET g == Gcd(Abs(n), Abs(d))
        s == IF d < 0 THEN -1 ELSE 1
    IN  <<(s * n) \div g, (s * d) \div g>>

FracLess(p, q) == p[1] * q[2] < q[1] * p[2]

----------------------------------------------------------------------------
(* Props and derived constants (carousel.js 66-96) *)

dataLength == props.dataLength
data(index) == <<"item", index>>
halfContainerWidth == props.containerWidth \div 2
halfItemWidth == props.itemWidth \div 2

getItemTotalMarginBothSide ==
    LET compensatorOfSeparatorByScaleEffect ==
            ((ScaleDen - props.inActiveScale) * props.itemWidth) \div ScaleDen
    IN  props.separatorWidth - compensatorOfSeparatorByScaleEffect \div 2

itemTotalMarginBothSide == getItemTotalMarginBothSide

isLastItem(index) == index = dataLength - 1
isFirstItem(index) == index = 0

\* mutant of getItemOffset: the item width is left out of the stride
getItemOffsetMarginOnly(index) ==
    index * itemTotalMarginBothSide - (halfContainerWidth - halfItemWidth)

getItemOffset(index) ==
    index * (props.itemWidth + itemTotalMarginBothSide)
        - (halfContainerWidth - halfItemWidth)

\* the layout handed to the list for an item (carousel.js 112-118)
getItemLayout(index) ==
    [offset |-> getItemOffset(index), length |-> props.itemWidth, index |-> index]

getAnimatedOffset(index) ==
    IF isFirstItem(index) THEN halfItemWidth
    ELSE IF isLastItem(index) THEN props.containerWidth - halfItemWidth
    ELSE halfContainerWidth

\* mutant of getMidPontInterpolate: the half item width is left out
getMidPontInterpolateNoHalfItem(index, animatedOffset) ==
    index * (props.itemWidth + itemTotalMarginBothSide) - animatedOffset

getMidPontInterpolate(index, animatedOffset) ==
    index * (props.itemWidth + itemTotalMarginBothSide)
        + halfItemWidth - animatedOffset

\* mutant of getStartPontInterpolate: the general case adds instead of subtracting
getStartPontInterpolateAdds(index, midPoint) ==
    IF index = 1 THEN 0
    ELSE IF isLastItem(index)
    THEN (dataLength - 2) * (props.itemWidth + itemTotalMarginBothSide)
            + halfItemWidth - halfContainerWidth
    ELSE midPoint + props.itemWidth + itemTotalMarginBothSide

getStartPontInterpolate(index, midPoint) ==
    IF index = 1 THEN 0
    ELSE IF isLastItem(index)
    THEN (dataLength - 2) * (props.itemWidth + itemTotalMarginBothSide)
            + halfItemWidth - halfContainerWidth
    ELSE midPoint - props.itemWidth - itemTotalMarginBothSide

\* mutant of getEndPointInterpolate: no special case for the second-to-last item
getEndPointInterpolateNoSecondToLast(index, midPoint) ==
    IF isFirstItem(index)
    THEN props.itemWidth + itemTotalMarginBothSide
            + halfItemWidth - halfContainerWidth
    ELSE midPoint + props.itemWidth + itemTotalMarginBothSide

getEndPointInterpolate(index, midPoint) ==
    IF isFirstItem(index)
    THEN props.itemWidth + itemTotalMarginBothSide
            + halfItemWidth - halfContainerWidth
    ELSE IF index = dataLength - 2
    THEN (dataLength - 1) * (props.itemWidth + itemTotalMarginBothSide)
            + props.itemWidth - props.containerWidth
    ELSE midPoint + props.itemWidth + itemTotalMarginBothSide

\* mutant of getItemMarginStyle: `inverted` is not consulted
getItemMarginStyleNotMirrored(index) ==
    LET marginSingleItemSide == itemTotalMarginBothSide \div 2
    IN  IF isFirstItem(index) THEN [marginRight |-> marginSingleItemSide \div 2]
        ELSE IF isLastItem(index) THEN [marginLeft |-> marginSingleItemSide \div 2]
        ELSE [marginHorizontal |-> marginSingleItemSide]

\* the style object of an item's margins: only the keys the code sets
getItemMarginStyle(index) ==
    LET marginSingleItemSide == itemTotalMarginBothSide \div 2
    IN  IF isFirstItem(index)
        THEN IF props.inverted
             THEN [marginLeft |-> marginSingleItemSide \div 2]
             ELSE [marginRight |-> marginSingleItemSide \div 2]
        ELSE IF isLastItem(index)
        THEN IF props.inverted
             THEN [marginRight |-> marginSingleItemSide \div 2]
             ELSE [marginLeft |-> marginSingleItemSide \div 2]
        ELSE [marginHorizontal |-> marginSingleItemSide]

----------------------------------------------------------------------------
(* interpolate(x, [i1, i2, i3], [o1, o2, o3], Extrapolate.CLAMP), as Item   *)
(* calls it (carousel.js 34-39): react-native-reanimated picks the segment *)
(* x falls in (the last one beyond input[3], the first one up to input[2]) *)
(* and interpolates linearly in it, clamping the result to the segment's   *)
(* edge outputs.  outputs are numbers of ScaleDen-ths.                     *)

\* mutant of internalInterpolate: no clamp (Extrapolate.EXTEND)
internalInterpolateExtend(x, leftEdgeInput, rightEdgeInput, leftEdgeOutput, rightEdgeOutput) ==
    IF rightEdgeInput - leftEdgeInput = 0
    THEN Frac(leftEdgeOutput, ScaleDen)
    ELSE Frac(leftEdgeOutput * (rightEdgeInput - leftEdgeInput)
                 + (x - leftEdgeInput) * (rightEdgeOutput - leftEdgeOutput),
              ScaleDen * (rightEdgeInput - leftEdgeInput))

\* one segment: linear between the edges, clamped to the edge outputs
internalInterpolate(x, leftEdgeInput, rightEdgeInput, leftEdgeOutput, rightEdgeOutput) ==
    IF rightEdgeInput - leftEdgeInput = 0
    THEN Frac(leftEdgeOutput, ScaleDen)
    ELSE LET val == Frac(leftEdgeOutput * (rightEdgeInput - leftEdgeInput)
                            + (x - leftEdgeInput) * (rightEdgeOutput - leftEdgeOutput),
                         ScaleDen * (rightEdgeInput - leftEdgeInput))
             lo == Frac(leftEdgeOutput, ScaleDen)
             ro == Frac(rightEdgeOutput, ScaleDen)
             up == rightEdgeOutput >= leftEdgeOutput
         IN  IF (IF up THEN FracLess(val, lo) ELSE FracLess(lo, val)) THEN lo
             ELSE IF (IF up THEN FracLess(ro, val) ELSE FracLess(val, ro)) THEN ro
             ELSE val

interpolate(x, input, output) ==
    IF x > input[3]
    THEN internalInterpolate(x, input[2], input[3], output[2], output[3])
    ELSE IF x <= input[2]
    THEN internalInterpolate(x, input[1], input[2], output[1], output[2])
    ELSE internalInterpolate(x, input[2], input[3], output[2], output[3])

\* the scale Item gives an item: xOffset.value (carousel.js 34-39)
Item(scrollValue, startPoint, midPoint, endPoint) ==
    interpolate(scrollValue,
                <<startPoint, midPoint, endPoint>>,
                <<props.inActiveScale, ScaleDen, props.inActiveScale>>)

\* mutant of reanimatedStyle: the opacity is interpolated on its own, towards
\* the inActiveOpacity prop
reanimatedStyleOwnOpacity(scrollValue, startPoint, midPoint, endPoint) ==
    [scale |-> Item(scrollValue, startPoint, midPoint, endPoint),
     opacity |-> interpolate(scrollValue,
                             <<startPoint, midPoint, endPoint>>,
                             <<props.inActiveOpacity, ScaleDen, props.inActiveOpacity>>)]

\* Item's animated style: transform scale and opacity (carousel.js 41-48)
reanimatedStyle(scrollValue, startPoint, midPoint, endPoint) ==
    LET xOffset == Item(scrollValue, startPoint, midPoint, endPoint)
    IN  [scale |-> xOffset, opacity |-> xOffset]

\* what renderItemContainer hands to Item, and Item's result (carousel.js 232-253)
renderItemContainer(index, scrollValue) ==
    LET animatedOffset == getAnimatedOffset(index)
        midPoint == getMidPontInterpolate(index, animatedOffset)
        startPoint == getStartPontInterpolate(index, midPoint)
        endPoint == getEndPointInterpolate(index, midPoint)
        style == reanimatedStyle(scrollValue, startPoint, midPoint, endPoint)
    IN  [startPoint |-> startPoint, midPoint |-> midPoint, endPoint |-> endPoint,
         scale |-> style.scale, opacity |-> style.opacity,
         itemMarginStyle |-> getItemMarginStyle(index)]

\* the render pass for the current `scroll` state: what each Item of data is
\* handed, and its scale (FlatList renderItem, carousel.js 275)
items ==
    [index \in 0..(dataLength - 1) |-> renderItemContainer(index, scroll)]

----------------------------------------------------------------------------
(* The controller (carousel.js 88-156, 269-272) *)

\* mutant of InRange: the upper test is off by one (index > dataLength)
InRangeInclusive(index) == ~(index < 0 \/ index > dataLength)

\* scrollToIndex's guard, negated (carousel.js 121)
InRange(index) == ~(index < 0 \/ index >= dataLength)

\* mutant of AcceptedCalls: the ref is assigned before onScrollEnd is invoked
AcceptedCallsAssignFirst(index) ==
    << [fn |-> "onScrollEnd", item |-> data(index), index |-> index,
        currentIndex |-> index],
       [fn |-> "setTimeout", index |-> index, currentIndex |-> index] >>

\* mutant of AcceptedCalls: onScrollEnd is skipped when the index does not change
AcceptedCallsOnChangeOnly(index) ==
    IF index = currentIndexRef
    THEN << [fn |-> "setTimeout", index |-> index, currentIndex |-> index] >>
    ELSE << [fn |-> "onScrollEnd", item |-> data(index), index |-> index,
             currentIndex |-> currentIndexRef],
            [fn |-> "setTimeout", index |-> index, currentIndex |-> index] >>

\* the calls an accepted scrollToIndex(index) makes, in order: onScrollEnd
\* sees the ref before the assignment, the setTimeout call sees it after
AcceptedCalls(index) ==
    << [fn |-> "onScrollEnd", item |-> data(index), index |-> index,
        currentIndex |-> currentIndexRef],
       [fn |-> "setTimeout", index |-> index, currentIndex |-> index] >>

\* mutant of setTimeout: the newest callback runs first
setTimeoutFirst(queue, index) == <<index>> \o queue

\* setTimeout(callback) with no delay: the callback joins the timer queue last
setTimeout(queue, index) == Append(queue, index)

\* scrollToIndex(index), entered after the calls in `before` (carousel.js 120-133)
scrollToIndex(index, before) ==
    IF InRange(index)
    THEN /\ Len(timers) < MaxPending
         /\ effects' = before \o <<[fn |-> "scrollToIndex", index |-> index]>>
                            \o AcceptedCalls(index)
         /\ currentIndexRef' = index
         /\ timers' = setTimeout(timers, index)
         /\ retargeted' = (retargeted \/ timers # <<>>)
    ELSE /\ effects' = before \o <<[fn |-> "scrollToIndex", index |-> index]>>
         /\ UNCHANGED <<currentIndexRef, timers, retargeted>>

\* the imperative handle, attached while the component is mounted
\* (carousel.js 100-102)
ScrollToIndex(index) ==
    /\ scrollViewRef
    /\ event' = "scrollToIndex"
    /\ scrollToIndex(index, <<>>)
    /\ UNCHANGED <<props, scrollXRef, scrollXBeginRef, scroll, scrollViewRef,
                   listCommand, gesture>>

\* mutant of TimerFires: the callback reads the ref instead of its captured index
TimerFiresReadsRef ==
    /\ timers # <<>>
    /\ event' = "timer"
    /\ timers' = Tail(timers)
    /\ IF scrollViewRef
       THEN LET cmd == [offset |-> getItemOffset(currentIndexRef), animated |-> TRUE]
            IN  /\ listCommand' = <<cmd>>
                /\ effects' = <<[fn |-> "scrollToOffset", params |-> cmd]>>
       ELSE /\ effects' = <<>>
            /\ UNCHANGED listCommand
    /\ UNCHANGED <<props, currentIndexRef, scrollXRef, scrollXBeginRef, scroll,
                   scrollViewRef, retargeted, gesture>>

\* the setTimeout callback of the oldest pending scrollToIndex (carousel.js 126-132)
TimerFires ==
    /\ timers # <<>>
    /\ event' = "timer"
    /\ timers' = Tail(timers)
    /\ IF scrollViewRef
       THEN LET cmd == [offset |-> getItemOffset(Head(timers)), animated |-> TRUE]
            IN  /\ listCommand' = <<cmd>>
                /\ effects' = <<[fn |-> "scrollToOffset", params |-> cmd]>>
       ELSE /\ effects' = <<>>
            /\ UNCHANGED listCommand
    /\ UNCHANGED <<props, currentIndexRef, scrollXRef, scrollXBeginRef, scroll,
                   scrollViewRef, retargeted, gesture>>

\* the list's onScroll prop; setScroll re-renders `items` (carousel.js 269-272)
onScroll(x) ==
    /\ scrollViewRef
    /\ event' = "onScroll"
    /\ scroll' = x
    /\ scrollXRef' = x
    /\ effects' = <<>>
    /\ UNCHANGED <<props, currentIndexRef, scrollXBeginRef, scrollViewRef, timers,
                   listCommand, retargeted, gesture>>

\* the value of `gesture` where the drags are not recorded
Untracked == [phase |-> "untracked", begin |-> 0, afterAbort |-> FALSE]

\* history: a drag begins at the live offset; afterAbort tells that the
\* release before it was aborted and left another offset in scrollXBeginRef
\* (between drags only an aborted release leaves the ref other than 0)
Began ==
    IF gesture = Untracked THEN Untracked
    ELSE [phase |-> "dragging", begin |-> scrollXRef,
          afterAbort |-> /\ gesture.phase = "idle"
                         /\ scrollXBeginRef \notin {0, scrollXRef}]

\* history: a release closes the drag in progress, if there is one, and
\* forgets where it began; afterAbort stays on a drag released past the abort
Released(aborted) ==
    IF gesture = Untracked THEN Untracked
    ELSE [phase |-> "idle", begin |-> 0,
          afterAbort |-> gesture.phase = "dragging" /\ ~aborted
                            /\ gesture.afterAbort]

\* mutant of handleOnScrollBeginDrag: the assignment is the wrong way round
handleOnScrollBeginDragSwapped ==
    /\ scrollViewRef
    /\ event' = "onScrollBeginDrag"
    /\ effects' = <<[fn |-> "onScrollBeginDrag"]>>
    /\ gesture' = Began
    /\ scrollXRef' = scrollXBeginRef
    /\ UNCHANGED <<props, currentIndexRef, scrollXBeginRef, scroll, scrollViewRef,
                   timers, listCommand, retargeted>>

\* mutant of handleOnScrollBeginDrag: an offset left by an earlier release is kept
handleOnScrollBeginDragKeepsStale ==
    /\ scrollViewRef
    /\ event' = "onScrollBeginDrag"
    /\ effects' = <<[fn |-> "onScrollBeginDrag"]>>
    /\ gesture' = Began
    /\ scrollXBeginRef' = IF scrollXBeginRef # 0 THEN scrollXBeginRef ELSE scrollXRef
    /\ UNCHANGED <<props, currentIndexRef, scrollXRef, scroll, scrollViewRef, timers,
                   listCommand, retargeted>>

\* drag-begin (carousel.js 135-138)
handleOnScrollBeginDrag ==
    /\ scrollViewRef
    /\ event' = "onScrollBeginDrag"
    /\ effects' = <<[fn |-> "onScrollBeginDrag"]>>
    /\ gesture' = Began
    /\ scrollXBeginRef' = scrollXRef
    /\ UNCHANGED <<props, currentIndexRef, scrollXRef, scroll, scrollViewRef, timers,
                   listCommand, retargeted>>

\* mutant of NegativeOffset: the test reads the drag-begin offset
NegativeBeginOffset == scrollXBeginRef < 0

\* handleOnScrollEndDrag's early return (carousel.js 142)
NegativeOffset == scrollXRef < 0

\* mutant of SnapTarget: the directions are swapped
SnapTargetSwapped(scrollDistance) ==
    IF Abs(scrollDistance) < props.minScrollDistance THEN currentIndexRef
    ELSE IF scrollDistance < 0 THEN currentIndexRef + 1
    ELSE currentIndexRef - 1

\* mutant of SnapTarget: a forward drag skips an item
SnapTargetSkipsForward(scrollDistance) ==
    IF Abs(scrollDistance) < props.minScrollDistance THEN currentIndexRef
    ELSE IF scrollDistance < 0 THEN currentIndexRef - 1
    ELSE currentIndexRef + 2

\* the index handleOnScrollEndDrag passes to scrollToIndex (carousel.js 147-155)
SnapTarget(scrollDistance) ==
    IF Abs(scrollDistance) < props.minScrollDistance THEN currentIndexRef
    ELSE IF scrollDistance < 0 THEN currentIndexRef - 1
    ELSE currentIndexRef + 1

\* mutant of handleOnScrollEndDrag: scrollXBeginRef is not reset
handleOnScrollEndDragNoReset ==
    /\ scrollViewRef
    /\ event' = "onScrollEndDrag"
    /\ IF NegativeOffset
       THEN /\ effects' = <<[fn |-> "onScrollEndDrag"]>>
            /\ gesture' = Released(TRUE)
            /\ UNCHANGED <<currentIndexRef, timers, scrollXBeginRef, retargeted>>
       ELSE LET scrollDistance == scrollXRef - scrollXBeginRef
            IN  /\ UNCHANGED scrollXBeginRef
                /\ gesture' = Released(FALSE)
                /\ scrollToIndex(SnapTarget(scrollDistance),
                                 <<[fn |-> "onScrollEndDrag"]>>)
    /\ UNCHANGED <<props, scrollXRef, scroll, scrollViewRef, listCommand>>

\* drag-end (carousel.js 140-156)
handleOnScrollEndDrag ==
    /\ scrollViewRef
    /\ event' = "onScrollEndDrag"
    /\ IF NegativeOffset
       THEN /\ effects' = <<[fn |-> "onScrollEndDrag"]>>
            /\ gesture' = Released(TRUE)
            /\ UNCHANGED <<currentIndexRef, timers, scrollXBeginRef, retargeted>>
       ELSE LET scrollDistance == scrollXRef - scrollXBeginRef
            IN  /\ scrollXBeginRef' = 0
                /\ gesture' = Released(FALSE)
                /\ scrollToIndex(SnapTarget(scrollDistance),
                                 <<[fn |-> "onScrollEndDrag"]>>)
    /\ UNCHANGED <<props, scrollXRef, scroll, scrollViewRef, listCommand>>

\* the component unmounts: React clears scrollViewRef.current; timers stay pending
Unmount ==
    /\ scrollViewRef
    /\ scrollViewRef' = FALSE
    /\ event' = "unmount"
    /\ effects' = <<>>
    /\ UNCHANGED <<props, currentIndexRef, scrollXRef, scrollXBeginRef, scroll,
                   timers, listCommand, retargeted, gesture>>

----------------------------------------------------------------------------
(* The state after mount (carousel.js 88-98) *)

Mounted ==
    /\ currentIndexRef = props.initialIndex
    /\ scrollXRef = 0
    /\ scrollXBeginRef = 0
    /\ scroll = 0
    /\ scrollViewRef = TRUE
    /\ timers = <<>>
    /\ listCommand = <<>>
    /\ retargeted = FALSE
    /\ event = "mount"
    /\ effects = <<>>

\* the controller, on one geometry: a 300 px container, 270 px items, 10 px
\* separators, inActiveScale 0.8
Init ==
    /\ props \in [containerWidth : {Px(300)}, itemWidth : {Px(270)},
                   separatorWidth : {Px(10)}, inActiveScale : {ScaleDen - 2},
                   inActiveOpacity : {ScaleDen - 2}, inverted : {FALSE},
                   minScrollDistance : MinScrollDistances,
                   dataLength : 0..MaxDataLength,
                   initialIndex : -1..MaxDataLength]
    /\ props.initialIndex \in {-1, 0, props.dataLength}
    /\ Mounted
    /\ gesture = Untracked

Next ==
    \/ \E index \in -1..(dataLength + 1) : ScrollToIndex(index)
    \/ TimerFires
    \/ \E x \in ScrollOffsets : onScroll(x)
    \/ handleOnScrollBeginDrag
    \/ handleOnScrollEndDrag
    \/ Unmount

Spec == Init /\ [][Next]_vars

\* the controller on a full list, with the event loop running every pending
\* setTimeout callback
TickOffsets == {Px(-20), Px(0), Px(100)}

TickInit ==
    /\ props \in [containerWidth : {Px(300)}, itemWidth : {Px(270)},
                  separatorWidth : {Px(10)}, inActiveScale : {ScaleDen - 2},
                  inActiveOpacity : {ScaleDen - 2}, inverted : {FALSE},
                  minScrollDistance : {Px(5)}, dataLength : {MaxDataLength},
                  initialIndex : {0}]
    /\ Mounted
    /\ gesture = Untracked

TickNext ==
    \/ \E index \in -1..dataLength : ScrollToIndex(index)
    \/ TimerFires
    \/ \E x \in TickOffsets : onScroll(x)
    \/ handleOnScrollBeginDrag
    \/ handleOnScrollEndDrag
    \/ Unmount

TickSpec == TickInit /\ [][TickNext]_vars /\ WF_vars(TimerFires)

\* the controller on a full list, with the drags recorded in `gesture`
GestureInit ==
    /\ props \in [containerWidth : {Px(300)}, itemWidth : {Px(270)},
                  separatorWidth : {Px(10)}, inActiveScale : {ScaleDen - 2},
                  inActiveOpacity : {ScaleDen - 2}, inverted : {FALSE},
                  minScrollDistance : MinScrollDistances,
                  dataLength : {MaxDataLength}, initialIndex : {0}]
    /\ Mounted
    /\ gesture = [phase |-> "idle", begin |-> 0, afterAbort |-> FALSE]

GestureSpec == GestureInit /\ [][Next]_vars

----------------------------------------------------------------------------
(* The geometry and the interpolation, over a range of configurations: the *)
(* list only scrolls, through every breakpoint and around it               *)

\* the offsets around one item's breakpoints: before, at, between and beyond
Around(item) ==
    {item.startPoint - Px(1), item.startPoint,
     (item.startPoint + item.midPoint) \div 2, item.midPoint,
     (item.midPoint + item.endPoint) \div 2, item.endPoint,
     item.endPoint + Px(1)}

\* the breakpoints of one item, as renderItemContainer derives them
Points(index) ==
    LET midPoint == getMidPontInterpolate(index, getAnimatedOffset(index))
    IN  [startPoint |-> getStartPontInterpolate(index, midPoint),
         midPoint |-> midPoint,
         endPoint |-> getEndPointInterpolate(index, midPoint)]

GeomOffsets == {0} \cup UNION {Around(Points(index)) : index \in 0..(dataLength - 1)}

GeomInit ==
    /\ props \in [containerWidth : ContainerWidths, itemWidth : ItemWidths,
                   separatorWidth : SeparatorWidths, inActiveScale : InActiveScales,
                   inActiveOpacity : InActiveOpacities, inverted : BOOLEAN,
                   minScrollDistance : {Px(5)},
                   dataLength : 0..GeomMaxDataLength,
                   initialIndex : {0}]
    /\ Mounted
    /\ gesture = Untracked

\* the parent renders the carousel again with another inActiveOpacity
\* (carousel.js 76); refs and state persist.  The history keeps the props
\* before and what the items were handed under them
Rerender(inActiveOpacity) ==
    /\ scrollViewRef
    /\ props' = [props EXCEPT !.inActiveOpacity = inActiveOpacity]
    /\ event' = "render"
    /\ effects' = <<[fn |-> "render", props |-> props, previous |-> items]>>
    /\ UNCHANGED <<currentIndexRef, scrollXRef, scrollXBeginRef, scroll,
                   scrollViewRef, timers, listCommand, retargeted, gesture>>

GeomNext ==
    \/ \E x \in GeomOffsets : onScroll(x)
    \/ \E inActiveOpacity \in InActiveOpacities : Rerender(inActiveOpacity)

GeomSpec == GeomInit /\ [][GeomNext]_vars

----------------------------------------------------------------------------
(* Properties of the controller, checked under Spec *)

\* what the last handler did, read from its calls
Called_(fn) == \E k \in 1..Len(effects') : effects'[k].fn = fn
\* the index the handler of this step passed to scrollToIndex
Requested_ == (CHOOSE k \in 1..Len(effects') : effects'[k].fn = "scrollToIndex")
ValidIndex(index) == 0 <= index /\ index < dataLength
Accepting_ == Called_("scrollToIndex") /\ ValidIndex(effects'[Requested_].index)
Rejecting_ == Called_("scrollToIndex") /\ ~ValidIndex(effects'[Requested_].index)

\* C1: in every reachable state, if dataLength > 0 then
\* 0 <= currentIndex < dataLength.
C1_CurrentIndexValid ==
    dataLength > 0 => ValidIndex(currentIndexRef)

\* C2: scrollToIndex(index) with index < 0 or index >= dataLength is a complete
\* no-op: currentIndex is unchanged, onScrollEnd is not invoked, and no
\* scrollToOffset command is enqueued or issued.
C2_OutOfRangeNoOp ==
    [][(event' = "scrollToIndex" /\ Rejecting_)
         => /\ currentIndexRef' = currentIndexRef
            /\ timers' = timers
            /\ listCommand' = listCommand
            /\ ~Called_("onScrollEnd")
            /\ ~Called_("setTimeout")
            /\ ~Called_("scrollToOffset")]_vars

C2_Witness ==
    /\ event = "scrollToIndex"
    /\ dataLength > 0
    /\ effects = <<[fn |-> "scrollToIndex", index |-> dataLength]>>
    /\ timers # <<>>

\* C3: on drag-end with live offset >= 0 and distance = currentOffset -
\* dragBeginOffset, the index passed to scrollToIndex is currentIndex if
\* |distance| < minScrollDistance, otherwise currentIndex - 1 if distance < 0,
\* otherwise currentIndex + 1.
C3_SnapDecision ==
    [][(event' = "onScrollEndDrag" /\ scrollXRef >= 0)
         => LET distance == scrollXRef - scrollXBeginRef
                near == (IF distance < 0 THEN -distance ELSE distance)
                            < props.minScrollDistance
                target == IF near THEN currentIndexRef
                          ELSE IF distance < 0 THEN currentIndexRef - 1
                          ELSE currentIndexRef + 1
            IN  /\ Called_("scrollToIndex")
                /\ effects'[2] = [fn |-> "scrollToIndex", index |-> target]]_vars

\* begin = 100, end = 80, minScrollDistance = 5, currentIndex = 2: target 1
C3_Witness ==
    /\ event = "onScrollEndDrag"
    /\ props.minScrollDistance = Px(5)
    /\ scrollXRef = Px(80)
    /\ Len(effects) = 4
    /\ effects[2] = [fn |-> "scrollToIndex", index |-> 1]
    /\ effects[3].currentIndex = 2
    /\ currentIndexRef = 1

\* C4: for every in-range scrollToIndex(target), onScrollEnd(data[target],
\* target) is invoked first (currentIndex still has its old value), then
\* currentIndex becomes target, then the scrollToOffset is deferred; the
\* scrollToOffset command is issued only by a later tick, never by the call.
C4_CallbackThenIndexThenDeferredScroll ==
    [][/\ Accepting_
          => LET target == effects'[Requested_].index
             IN  /\ SubSeq(effects', Requested_ + 1, Len(effects'))
                       = << [fn |-> "onScrollEnd", item |-> data(target),
                             index |-> target, currentIndex |-> currentIndexRef],
                            [fn |-> "setTimeout", index |-> target,
                             currentIndex |-> target] >>
                 /\ currentIndexRef' = target
                 /\ timers' = Append(timers, target)
                 /\ listCommand' = listCommand
       /\ (Called_("scrollToOffset") \/ listCommand' # listCommand)
          => /\ event' = "timer"
             /\ timers # <<>>
             /\ timers' = Tail(timers)
             /\ listCommand' = <<[offset |-> getItemOffset(Head(timers)),
                                  animated |-> TRUE]>>]_vars

C4_Witness ==
    /\ event = "scrollToIndex"
    /\ Len(effects) = 3
    /\ effects[2].fn = "onScrollEnd"
    /\ effects[2].currentIndex # effects[2].index
    /\ currentIndexRef = effects[2].index
    /\ listCommand = <<>>

\* C5: a drag-end that arrives while the live scroll offset is negative is
\* ignored: currentIndex is unchanged, onScrollEnd is not invoked and no
\* scrollToOffset command is enqueued, whatever the drag distance.
C5_NegativeOffsetIgnored ==
    [][(event' = "onScrollEndDrag" /\ scrollXRef < 0)
         => /\ currentIndexRef' = currentIndexRef
            /\ timers' = timers
            /\ listCommand' = listCommand
            /\ effects' = <<[fn |-> "onScrollEndDrag"]>>]_vars

C5_Witness ==
    /\ event = "onScrollEndDrag"
    /\ scrollXRef = Px(-20)
    /\ scrollXBeginRef = Px(100)
    /\ ValidIndex(currentIndexRef - 1)
    /\ effects = <<[fn |-> "onScrollEndDrag"]>>

\* C6 as claimed: a drag-end whose derived target falls outside
\* [0, dataLength) leaves the state unchanged: currentIndex and dragBeginOffset
\* keep their values, onScrollEnd is not invoked, nothing is enqueued.
C6_Original ==
    [][(event' = "onScrollEndDrag" /\ Rejecting_)
         => /\ currentIndexRef' = currentIndexRef
            /\ scrollXBeginRef' = scrollXBeginRef
            /\ timers' = timers
            /\ listCommand' = listCommand
            /\ ~Called_("onScrollEnd")
            /\ ~Called_("setTimeout")]_vars

\* C6 as amended: a drag-end whose derived target falls outside
\* [0, dataLength) drops the command: currentIndex keeps its value, onScrollEnd
\* is not invoked and nothing is enqueued, but dragBeginOffset is reset to 0.
C6_OutOfRangeTargetDropped ==
    [][(event' = "onScrollEndDrag" /\ Rejecting_)
         => /\ currentIndexRef' = currentIndexRef
            /\ scrollXBeginRef' = 0
            /\ timers' = timers
            /\ listCommand' = listCommand
            /\ ~Called_("onScrollEnd")
            /\ ~Called_("setTimeout")]_vars

\* a forward drag released on the last item
C6_Witness ==
    /\ event = "onScrollEndDrag"
    /\ dataLength > 1
    /\ currentIndexRef = dataLength - 1
    /\ effects = <<[fn |-> "onScrollEndDrag"],
                   [fn |-> "scrollToIndex", index |-> dataLength]>>
    /\ scrollXRef = Px(100)
    /\ scrollXBeginRef = 0

\* nothing is cancelled and the deferred commands run in the order enqueued
NoCancelFifo ==
    /\ Accepting_ => timers' = Append(timers, effects'[Requested_].index)
    /\ timers' # timers
          => \/ Accepting_
             \/ /\ event' = "timer"
                /\ timers' = Tail(timers)
                /\ scrollViewRef
                      => listCommand' = <<[offset |-> getItemOffset(Head(timers)),
                                           animated |-> TRUE]>>

\* C7 as claimed: when scrollToIndex was accepted again while deferred
\* commands were pending, once every pending tick has fired the last
\* scrollToOffset command issued targets offset(currentIndex).
C7_Original ==
    (retargeted /\ timers = <<>> /\ listCommand # <<>>)
        => listCommand = <<[offset |-> getItemOffset(currentIndexRef),
                            animated |-> TRUE]>>

\* C7 as amended: nothing is cancelled, the pending commands run in the order
\* they were enqueued, and, provided the list is still mounted when the ticks
\* fire, once every pending tick has fired the last scrollToOffset command
\* issued targets offset(currentIndex).
C7_LastCommandTargetsCurrentIndex ==
    /\ []((retargeted /\ timers = <<>> /\ scrollViewRef)
             => listCommand = <<[offset |-> getItemOffset(currentIndexRef),
                                 animated |-> TRUE]>>)
    /\ [][NoCancelFifo]_vars

\* two commands were pending at once, for different items, and both ticks fired
C7_Witness ==
    /\ retargeted
    /\ timers = <<>>
    /\ scrollViewRef
    /\ event = "timer"
    /\ currentIndexRef = 0
    /\ dataLength = MaxDataLength
    /\ listCommand = <<[offset |-> getItemOffset(0), animated |-> TRUE]>>

\* C8: currentIndex is changed only by an accepted scrollToIndex (called
\* directly or from drag-end); onScroll updates only the live scroll offset and
\* drag-begin only dragBeginOffset; neither changes currentIndex or enqueues a
\* scrollToOffset command.
C8_FrameOfScrollAndDragBegin ==
    [][/\ currentIndexRef' # currentIndexRef
          => event' \in {"scrollToIndex", "onScrollEndDrag"} /\ Accepting_
       /\ event' = "onScroll"
          => /\ UNCHANGED <<currentIndexRef, scrollXBeginRef, timers, listCommand>>
             /\ scroll' = scrollXRef'
             /\ effects' = <<>>
       /\ event' = "onScrollBeginDrag"
          => /\ UNCHANGED <<currentIndexRef, scrollXRef, scroll, timers, listCommand>>
             /\ scrollXBeginRef' = scrollXRef
             /\ effects' = <<[fn |-> "onScrollBeginDrag"]>>]_vars

C8_Witness ==
    /\ event = "onScrollBeginDrag"
    /\ scrollXRef = Px(102)
    /\ scrollXBeginRef = Px(102)
    /\ currentIndexRef = 1
    /\ timers = <<1>>

----------------------------------------------------------------------------
(* Properties of the geometry and the interpolation, checked under GeomSpec *)

Ordered(item) == item.startPoint < item.midPoint /\ item.midPoint < item.endPoint
InActive == Frac(props.inActiveScale, ScaleDen)

\* the reduced fraction f equals n / d
FracIs(f, n, d) == f = Frac(n, d)

\* C9: for every item with breakpoints start < mid < end, the scale is the
\* clamped piecewise-linear interpolation of the live scroll offset through
\* (start, inActiveScale), (mid, 1), (end, inActiveScale): exactly 1 at mid,
\* exactly inActiveScale at every offset <= start or >= end.
C9_ClampedPiecewiseLinear ==
    \A index \in DOMAIN items :
        LET item == items[index]
            a == props.inActiveScale
        IN  Ordered(item) =>
              /\ scroll = item.midPoint => item.scale = <<1, 1>>
              /\ (scroll <= item.startPoint \/ scroll >= item.endPoint)
                    => item.scale = InActive
              /\ (item.startPoint < scroll /\ scroll < item.midPoint)
                    => FracIs(item.scale,
                              a * (item.midPoint - item.startPoint)
                                + (scroll - item.startPoint) * (ScaleDen - a),
                              ScaleDen * (item.midPoint - item.startPoint))
              /\ (item.midPoint < scroll /\ scroll < item.endPoint)
                    => FracIs(item.scale,
                              ScaleDen * (item.endPoint - item.midPoint)
                                - (scroll - item.midPoint) * (ScaleDen - a),
                              ScaleDen * (item.endPoint - item.midPoint))

\* an item at full scale while a neighbour sits beyond its end point, clamped
C9_Witness ==
    /\ event = "onScroll"
    /\ props.inActiveScale < ScaleDen
    /\ \E i, j \in DOMAIN items :
          /\ Ordered(items[i]) /\ Ordered(items[j])
          /\ scroll = items[i].midPoint /\ items[i].scale = <<1, 1>>
          /\ scroll > items[j].endPoint /\ items[j].scale = InActive

\* the indices the special cases of start / end do not touch
Interior(index) ==
    /\ index \in DOMAIN items
    /\ index \notin {0, 1, dataLength - 2, dataLength - 1}

\* C10 as claimed: for every interior index and every configuration,
\* start(index) <= mid(index) <= end(index).
C10_Original ==
    \A index \in DOMAIN items :
        Interior(index) =>
            /\ items[index].startPoint <= items[index].midPoint
            /\ items[index].midPoint <= items[index].endPoint

\* C10 as amended: for every interior index and every configuration with
\* itemWidth + totalMargin >= 0, start(index) <= mid(index) <= end(index).
C10_InteriorBreakpointsOrdered ==
    props.itemWidth + itemTotalMarginBothSide >= 0
        => \A index \in DOMAIN items :
              Interior(index) =>
                  /\ items[index].startPoint <= items[index].midPoint
                  /\ items[index].midPoint <= items[index].endPoint

C10_Witness ==
    /\ props.itemWidth + itemTotalMarginBothSide > 0
    /\ event = "onScroll"
    /\ \E index \in DOMAIN items :
          /\ Interior(index)
          /\ items[index].startPoint < items[index].midPoint
          /\ items[index].midPoint < items[index].endPoint
          /\ scroll = items[index].midPoint

----------------------------------------------------------------------------
(* Properties of the item styles and margins, checked under GeomSpec *)

\* C11: the opacity applied to an item always equals its scale, and the
\* inActiveOpacity prop never influences it: carousels that differ only in
\* inActiveOpacity give every item the same scale and opacity at every offset.
C11_OpacityIsScale ==
    /\ \A index \in DOMAIN items :
          LET item == items[index] IN item.opacity = item.scale
    /\ event = "render" => items = effects[1].previous

\* a half-faded item, rendered again under another inActiveOpacity
C11_Witness ==
    /\ event = "render"
    /\ props.inActiveOpacity # props.inActiveScale
    /\ effects[1].props.inActiveOpacity # props.inActiveOpacity
    /\ effects[1].previous = items
    /\ \E index \in DOMAIN items :
          /\ Ordered(items[index])
          /\ items[index].startPoint < scroll /\ scroll < items[index].midPoint
          /\ items[index].opacity = items[index].scale
          /\ items[index].opacity # Frac(props.inActiveOpacity, ScaleDen)

\* the side margins the claim speaks of
EdgeMargin == itemTotalMarginBothSide \div 4
MirroredMargins(index) ==
    LET style == items[index].itemMarginStyle
    IN  /\ index = 0
           => style = IF props.inverted THEN [marginLeft |-> EdgeMargin]
                      ELSE [marginRight |-> EdgeMargin]
        /\ index = dataLength - 1
           => style = IF props.inverted THEN [marginRight |-> EdgeMargin]
                      ELSE [marginLeft |-> EdgeMargin]
        /\ index \notin {0, dataLength - 1}
           => style = [marginHorizontal |-> itemTotalMarginBothSide \div 2]

\* C12 as claimed: the first index gets a margin on the right side only
\* (inverted = false) or on the left side only (inverted = true), with the same
\* magnitude; the last index gets the opposite side in each case; every other
\* index gets half of totalMargin on both sides.
C12_Original ==
    \A index \in DOMAIN items : MirroredMargins(index)

\* C12 as amended: the same, for dataLength >= 2 (a single item is both first
\* and last, and gets the first item's margin).
C12_MarginsMirrorUnderInversion ==
    dataLength >= 2 => \A index \in DOMAIN items : MirroredMargins(index)

C12_Witness ==
    /\ props.inverted
    /\ dataLength >= 3
    /\ EdgeMargin # 0
    /\ items[0].itemMarginStyle = [marginLeft |-> EdgeMargin]
    /\ items[dataLength - 1].itemMarginStyle = [marginRight |-> EdgeMargin]
    /\ items[1].itemMarginStyle = [marginHorizontal |-> 2 * EdgeMargin]

\* C13: whenever itemWidth + totalMargin > 0, offset(index) is strictly
\* increasing over the indices in [0, dataLength).
C13_OffsetStrictlyIncreasing ==
    props.itemWidth + itemTotalMarginBothSide > 0
        => \A i, j \in DOMAIN items :
              i < j => getItemLayout(i).offset < getItemLayout(j).offset

\* overlapping items (a negative margin) on a list of at least three
C13_Witness ==
    /\ props.itemWidth + itemTotalMarginBothSide > 0
    /\ itemTotalMarginBothSide < 0
    /\ dataLength >= 3
    /\ getItemLayout(0).offset < getItemLayout(1).offset
    /\ getItemLayout(1).offset < getItemLayout(2).offset
    /\ getItemLayout(1).offset = Px(238)

\* the indices that are neither first nor last
Inner(index) == index \in DOMAIN items /\ 0 < index /\ index < dataLength - 1

Chained ==
    \A index \in DOMAIN items :
        index < dataLength - 1 =>
            LET item == items[index]
                next == items[index + 1]
            IN  /\ item.endPoint = next.midPoint
                /\ next.startPoint = item.midPoint

\* the neighbours of an item
Neighbours(index) == {index - 1, index + 1} \cap DOMAIN items

\* C19 as claimed: for dataLength >= 3 and every configuration, the breakpoints
\* chain, and at the offset where one item is at full scale both of its
\* neighbours are exactly at inActiveScale.
C19_Original ==
    dataLength >= 3 =>
        /\ Chained
        /\ \A index \in DOMAIN items :
              scroll = items[index].midPoint
                  => \A other \in Neighbours(index) : items[other].scale = InActive

\* C19 as amended: for dataLength >= 3 the breakpoints chain, and at the
\* offset where one item is at full scale every neighbour whose breakpoints
\* are in order (start < mid < end) is exactly at inActiveScale.
C19_BreakpointsChain ==
    dataLength >= 3 =>
        /\ Chained
        /\ \A index \in DOMAIN items :
              scroll = items[index].midPoint
                  => \A other \in Neighbours(index) :
                        LET item == items[other]
                        IN  Ordered(item) => item.scale = InActive

\* an inner item at full scale between two neighbours at inActiveScale
C19_Witness ==
    /\ event = "onScroll"
    /\ dataLength >= 3
    /\ props.inActiveScale < ScaleDen
    /\ Chained
    /\ \E index \in DOMAIN items :
          /\ Inner(index)
          /\ scroll = items[index].midPoint
          /\ items[index].scale = <<1, 1>>
          /\ Ordered(items[index - 1]) /\ items[index - 1].scale = InActive
          /\ Ordered(items[index + 1]) /\ items[index + 1].scale = InActive

----------------------------------------------------------------------------
(* Further properties of the controller, checked under Spec; C16 under
   GestureSpec *)

\* the positions in the last handler's calls where fn was called
Calls_(fn) == {k \in 1..Len(effects') : effects'[k].fn = fn}

\* C15: every drag-end that is not aborted and whose target is in range
\* invokes onScrollEnd exactly once, with (data[target], target), and enqueues
\* exactly one scroll command, also when target = currentIndex; onScrollEnd is
\* invoked at no other time than inside an accepted scrollToIndex.
C15_DragEndCallsOnScrollEndOnce ==
    [][/\ (event' = "onScrollEndDrag" /\ ~(scrollXRef < 0) /\ Accepting_)
          => LET target == effects'[Requested_].index
             IN  /\ Cardinality(Calls_("onScrollEnd")) = 1
                 /\ \A k \in Calls_("onScrollEnd") :
                       /\ effects'[k].item = data(target)
                       /\ effects'[k].index = target
                 /\ Cardinality(Calls_("setTimeout")) = 1
                 /\ timers' = Append(timers, target)
       /\ Called_("onScrollEnd")
          => /\ Accepting_
             /\ Calls_("onScrollEnd") = {Requested_ + 1}]_vars

\* a snap-back: the release asked for the index the ref already had
C15_Witness ==
    /\ event = "onScrollEndDrag"
    /\ props.minScrollDistance = Px(5)
    /\ scrollXRef = Px(102)
    /\ Len(effects) = 4
    /\ effects[2] = [fn |-> "scrollToIndex", index |-> currentIndexRef]
    /\ effects[3] = [fn |-> "onScrollEnd", item |-> data(currentIndexRef),
                     index |-> currentIndexRef, currentIndex |-> currentIndexRef]
    /\ effects[4].fn = "setTimeout"
    /\ timers = <<currentIndexRef>>

\* C17: a single drag-end changes currentIndex by at most one step, whatever
\* the drag distance: from c it becomes c - 1, c or c + 1.
C17_DragEndMovesAtMostOneStep ==
    [][event' = "onScrollEndDrag"
         => currentIndexRef' \in {currentIndexRef - 1, currentIndexRef,
                                  currentIndexRef + 1}]_vars

\* a release 102 px from where the drag began moved the index by one
C17_Witness ==
    /\ event = "onScrollEndDrag"
    /\ scrollXRef = Px(102)
    /\ Len(effects) = 4
    /\ effects[3].currentIndex = 0
    /\ currentIndexRef = 1
    /\ dataLength >= 3

\* C16: for every gesture delivered as drag-begin followed by drag-end, with
\* any number of onScroll updates before, between and after, the distance the
\* snap decision uses is the live offset at that drag-end minus the live
\* offset at that same drag-begin, whatever earlier gestures did, releases
\* aborted for a negative offset or dropped for an out-of-range target included.
C16_DistanceOfTheSameGesture ==
    [][(event' = "onScrollEndDrag" /\ gesture.phase = "dragging"
            /\ ~(scrollXRef < 0))
         => LET distance == scrollXRef - gesture.begin
                near == (IF distance < 0 THEN -distance ELSE distance)
                            < props.minScrollDistance
                target == IF near THEN currentIndexRef
                          ELSE IF distance < 0 THEN currentIndexRef - 1
                          ELSE currentIndexRef + 1
            IN  /\ scrollXRef - scrollXBeginRef = distance
                /\ Called_("scrollToIndex")
                /\ effects'[Requested_].index = target]_vars

\* a drag begun after an aborted release and let go 2 px further: a snap-back
C16_Witness ==
    /\ event = "onScrollEndDrag"
    /\ gesture.phase = "idle"
    /\ gesture.afterAbort
    /\ props.minScrollDistance = Px(5)
    /\ scrollXRef = Px(102)
    /\ Len(effects) = 4
    /\ effects[2] = [fn |-> "scrollToIndex", index |-> currentIndexRef]
    /\ effects[3].currentIndex = currentIndexRef

----------------------------------------------------------------------------
(* The deferred scroll command, checked under TickSpec *)

\* a pending callback captured `target`
Pending(target) == \E k \in 1..Len(timers) : timers[k] = target

\* the last step was a tick of a callback that captured `target`: one
\* scrollToOffset if the list is mounted, nothing otherwise
Fired(target) ==
    /\ event = "timer"
    /\ IF scrollViewRef
       THEN /\ effects = <<[fn |-> "scrollToOffset",
                            params |-> [offset |-> getItemOffset(target),
                                        animated |-> TRUE]]>>
            /\ listCommand = <<[offset |-> getItemOffset(target), animated |-> TRUE]>>
       ELSE effects = <<>>

\* every accepted call enqueues its target; nothing but a tick removes it
Enqueued_ ==
    /\ Accepting_ => /\ timers' = Append(timers, effects'[Requested_].index)
                     /\ currentIndexRef' = effects'[Requested_].index
    /\ timers' # timers => Accepting_ \/ event' = "timer"
    /\ Called_("scrollToOffset") => event' = "timer"

\* a tick runs the oldest callback: one command for its target when mounted
Tick_ ==
    event' = "timer"
        => /\ timers # <<>>
           /\ timers' = Tail(timers)
           /\ IF scrollViewRef
              THEN /\ effects' = <<[fn |-> "scrollToOffset",
                                    params |-> [offset |-> getItemOffset(Head(timers)),
                                                animated |-> TRUE]]>>
                   /\ listCommand' = <<effects'[1].params>>
              ELSE /\ effects' = <<>>
                   /\ listCommand' = listCommand

\* every pending callback is run
EveryTickFires ==
    \A target \in 0..(MaxDataLength - 1) : Pending(target) ~> Fired(target)

\* C14 as claimed: every accepted scrollToIndex(target) is eventually followed,
\* once its tick fires, by exactly one scrollToOffset with offset(target) and
\* animated = true if the list is still mounted at that tick; if it is not,
\* the command is dropped silently and currentIndex keeps the value target.
C14_Original ==
    /\ [][/\ Enqueued_
          /\ Tick_
          /\ (event' = "timer" /\ ~scrollViewRef)
                => currentIndexRef' = Head(timers)]_vars
    /\ EveryTickFires

\* C14 as amended: every accepted scrollToIndex(target) is eventually followed,
\* once its tick fires, by exactly one scrollToOffset with offset(target) and
\* animated = true if the list is still mounted at that tick; if it is not,
\* the command is dropped silently and currentIndex is left as it is: it keeps
\* the target of the call accepted last.
C14_TickIssuesOrDropsCommand ==
    /\ [][/\ Enqueued_
          /\ Tick_
          /\ (event' = "timer" /\ ~scrollViewRef)
                => /\ currentIndexRef' = currentIndexRef
                   /\ Len(timers) = 1 => currentIndexRef' = Head(timers)]_vars
    /\ EveryTickFires

\* the tick of scrollToIndex(1) on the mounted list: scrollToOffset(238 px)
C14_Witness ==
    /\ event = "timer"
    /\ scrollViewRef
    /\ currentIndexRef = 1
    /\ timers = <<>>
    /\ effects = <<[fn |-> "scrollToOffset",
                    params |-> [offset |-> Px(238), animated |-> TRUE]]>>
    /\ listCommand = <<[offset |-> Px(238), animated |-> TRUE]>>

====
